---- MODULE Spec2Model ----
(***************************************************************************)
(* State-machine model of src/src/platform.js, the orchestration core of   *)
(* the proactive assistant platform: construction of the handler registry, *)
(* the asynchronous load of the user state, the WebSocket message path and *)
(* the three setInterval jobs.  One step of the model is one synchronous   *)
(* run of JavaScript code between two suspension points (await) or one     *)
(* event of the environment (a timer tick, a settled promise, a message).  *)
(***************************************************************************)
EXTENDS Integers, Sequences, FiniteSets, TLC

\* ------------------------------------------------------------------ bounds
MaxMsgs == 2
MaxFirings == 2
\* Messages plus firings in the specification of the whole platform.
MaxWork == 2

\* --------------------------------------------------------------- constants
\* The nine registrations of initializeHandlers, in source order.
HandlerOrder ==
  << "logseq", "filesystem", "memory", "email", "calendar",
     "claude", "tasks", "projects", "brainstorm" >>

CapabilityNames == { HandlerOrder[i] : i \in 1..Len(HandlerOrder) }

Conns == { "A", "B" }

Jobs == { "runPeriodicChecks", "analyzeUserPatterns", "updateKnowledgeBase" }

\* JavaScript values of state.userPreferences.
Null == [tag |-> "null", fields |-> {}]
EmptyObject == [tag |-> "object", fields |-> {}]
DarkTheme == [tag |-> "object", fields |-> { <<"theme", "dark">> }]

\* What fs.readFile finds at state/user_state.json: no file, a file that
\* cannot be read, or a file with one of these texts.
FileTexts == { "{}", " { \"theme\" : \"dark\" } ", "{\"theme\":\"dark\"}",
               "null", "{\"theme\":" }

FileSources ==
  { [kind |-> "missing", text |-> ""], [kind |-> "unreadable", text |-> ""] }
  \cup { [kind |-> "file", text |-> t] : t \in FileTexts }

\* JSON.parse on the texts of the state file: a value, or a SyntaxError.
JSONParse(text) ==
  CASE text = "{}" -> [ok |-> TRUE, value |-> EmptyObject]
    [] text = " { \"theme\" : \"dark\" } " -> [ok |-> TRUE, value |-> DarkTheme]
    [] text = "{\"theme\":\"dark\"}" -> [ok |-> TRUE, value |-> DarkTheme]
    [] text = "null" -> [ok |-> TRUE, value |-> Null]
    [] OTHER -> [ok |-> FALSE, value |-> Null]

\* The texts that arrive on a connection.
TaskUpdateText ==
  "{\"type\":\"TASK_UPDATE\",\"payload\":{\"id\":\"t1\",\"urgent\":true}}"
ProjectUpdateText ==
  "{\"type\":\"PROJECT_UPDATE\",\"payload\":{\"id\":\"p1\",\"urgent\":false}}"
BrainstormText ==
  "{\"type\":\"BRAINSTORM_REQUEST\",\"payload\":{\"id\":\"b1\",\"urgent\":false}}"
PingText ==
  "{\"type\":\"PING\",\"payload\":{\"id\":\"x1\",\"urgent\":false}}"
TruncatedText == "{\"type\":\"TASK_UPDATE\",\"payl"
NullText == "null"

MessageTexts == { TaskUpdateText, ProjectUpdateText, BrainstormText, PingText,
                  TruncatedText, NullText }

NoPayload == [id |-> "", urgent |-> FALSE]

\* JSON.parse on the texts of a message: ok is FALSE for a SyntaxError,
\* isNull is TRUE when the value is null, else type and payload are the
\* two properties of the parsed object.
ParseMessage(text) ==
  CASE text = TaskUpdateText ->
         [ok |-> TRUE, isNull |-> FALSE, type |-> "TASK_UPDATE",
          payload |-> [id |-> "t1", urgent |-> TRUE]]
    [] text = ProjectUpdateText ->
         [ok |-> TRUE, isNull |-> FALSE, type |-> "PROJECT_UPDATE",
          payload |-> [id |-> "p1", urgent |-> FALSE]]
    [] text = BrainstormText ->
         [ok |-> TRUE, isNull |-> FALSE, type |-> "BRAINSTORM_REQUEST",
          payload |-> [id |-> "b1", urgent |-> FALSE]]
    [] text = PingText ->
         [ok |-> TRUE, isNull |-> FALSE, type |-> "PING",
          payload |-> [id |-> "x1", urgent |-> FALSE]]
    [] text = NullText ->
         [ok |-> TRUE, isNull |-> TRUE, type |-> "", payload |-> NoPayload]
    [] OTHER ->
         [ok |-> FALSE, isNull |-> FALSE, type |-> "", payload |-> NoPayload]

\* The methods the class ProactiveAssistantPlatform defines.  Calling
\* this.m(...) for any other m throws a TypeError.
PlatformMethods ==
  { "constructor", "initializeHandlers", "loadUserState", "setupWebSocket",
    "startProactiveMonitoring", "runPeriodicChecks", "analyzeUserPatterns",
    "updateKnowledgeBase", "handleMessage", "start" }

NoRoute == [handler |-> "none", op |-> "none"]

\* The switch of handleMessage.
Route(type) ==
  CASE type = "TASK_UPDATE" -> [handler |-> "tasks", op |-> "handleTaskUpdate"]
    [] type = "PROJECT_UPDATE" ->
         [handler |-> "projects", op |-> "handleProjectUpdate"]
    [] type = "BRAINSTORM_REQUEST" ->
         [handler |-> "brainstorm", op |-> "handleBrainstormSession"]
    [] OTHER -> NoRoute

\* The jobs with the email check of runPeriodicChecks moved before its
\* calendar check.
JobCallsSwapped(job) ==
  CASE job = "runPeriodicChecks" ->
         << [handler |-> "tasks", op |-> "checkUrgentTasks"],
            [handler |-> "projects", op |-> "checkProjectDeadlines"],
            [handler |-> "email", op |-> "checkImportantEmails"],
            [handler |-> "calendar", op |-> "checkUpcomingEvents"],
            [handler |-> "logseq", op |-> "updateEntries"] >>
    [] job = "analyzeUserPatterns" ->
         << [handler |-> "claude", op |-> "analyzePatterns"] >>
    [] job = "updateKnowledgeBase" ->
         << [handler |-> "memory", op |-> "updateKnowledgeBase"],
            [handler |-> "claude", op |-> "generateInsights"],
            [handler |-> "projects", op |-> "updateStrategies"] >>

\* The handler calls of each job, in source order.  analyzeUserPatterns ends
\* with a call of this.updateProactiveSuggestions, which is no handler call.
JobCalls(job) ==
  CASE job = "runPeriodicChecks" ->
         << [handler |-> "tasks", op |-> "checkUrgentTasks"],
            [handler |-> "projects", op |-> "checkProjectDeadlines"],
            [handler |-> "calendar", op |-> "checkUpcomingEvents"],
            [handler |-> "email", op |-> "checkImportantEmails"],
            [handler |-> "logseq", op |-> "updateEntries"] >>
    [] job = "analyzeUserPatterns" ->
         << [handler |-> "claude", op |-> "analyzePatterns"] >>
    [] job = "updateKnowledgeBase" ->
         << [handler |-> "memory", op |-> "updateKnowledgeBase"],
            [handler |-> "claude", op |-> "generateInsights"],
            [handler |-> "projects", op |-> "updateStrategies"] >>

\* What a handler operation that succeeds can return.
ReturnValues(op) ==
  CASE op = "analyzePatterns" -> { "analysis1", "analysis2" }
    [] op = "generateInsights" -> { "insights1", "insights2" }
    [] OTHER -> { "undefined" }

AllReturnValues ==
  { "analysis1", "analysis2", "insights1", "insights2", "undefined" }

\* ------------------------------------------------------------------- state
VARIABLES
  pc,            \* position of the constructor
  handlers,      \* this.handlers: registered name -> instance number
  state,         \* this.state
  initPromise,   \* the promise returned by initializeHandlers()
  loadedFrom,    \* the source loadUserState read ("none" before it settles)
  loadReported,  \* console.error('Error loading user state:') was called
  wsListening,   \* the 'connection' listener of setupWebSocket is installed
  timersArmed,   \* the three setInterval timers are armed
  started,       \* start() was called: the server listens
  rejectionMode, \* what this Node build does with an unhandled rejection
  unhandled,     \* rejected promises nobody handles, not yet processed
  alive,         \* the process has not terminated
  connStatus,    \* per connection: "none" (never opened), "open", "closed"
  msgs,          \* the messages received so far, in order of arrival
  ticks,         \* per job: how often its setInterval callback was invoked
  firings        \* the firings started so far, in order of their start

vars == << pc, handlers, state, initPromise, loadedFrom, loadReported,
           wsListening, timersArmed, started, rejectionMode, unhandled, alive,
           connStatus, msgs, ticks, firings >>

\* The state object of the constructor.
InitialState ==
  [ activeProjects |-> {},
    pendingTasks |-> << >>,
    upcomingEvents |-> << >>,
    lastAnalysis |-> "null",
    userPreferences |-> Null ]

NoSource == [kind |-> "none", text |-> ""]

Init ==
  /\ pc = "new"
  /\ handlers = << >>
  /\ state = InitialState
  /\ initPromise = "none"
  /\ loadedFrom = NoSource
  /\ loadReported = FALSE
  /\ wsListening = FALSE
  /\ timersArmed = FALSE
  /\ started = FALSE
  /\ rejectionMode \in { "throw", "warn" }
  /\ unhandled = 0
  /\ alive = TRUE
  /\ connStatus = [c \in Conns |-> "none"]
  /\ msgs = << >>
  /\ ticks = [j \in Jobs |-> 0]
  /\ firings = << >>

\* The registry after the first k registrations.
Registered(k) == [ n \in { HandlerOrder[i] : i \in 1..k } |->
                     CHOOSE i \in 1..k : HandlerOrder[i] = n ]

\* initializeHandlers() up to its first suspension.  failAt = 0: all nine
\* constructors return and loadUserState() starts its readFile; failAt = k:
\* the k-th constructor throws, which rejects the promise of this async
\* function.  The constructor does not await or catch that promise.
InitializeHandlers ==
  /\ pc = "new"
  /\ \E failAt \in 0..Len(HandlerOrder) :
       IF failAt = 0
         THEN /\ handlers' = Registered(Len(HandlerOrder))
              /\ initPromise' = "loading"
              /\ unhandled' = unhandled
         ELSE /\ handlers' = Registered(failAt - 1)
              /\ initPromise' = "rejected"
              /\ unhandled' = unhandled + 1
  /\ pc' = "initializeHandlers"
  /\ UNCHANGED << state, loadedFrom, loadReported, wsListening, timersArmed,
                  started, rejectionMode, alive, connStatus, msgs, ticks,
                  firings >>

\* setupWebSocket(): installs the connection listener.
SetupWebSocket ==
  /\ pc = "initializeHandlers"
  /\ pc' = "setupWebSocket"
  /\ wsListening' = TRUE
  /\ UNCHANGED << handlers, state, initPromise, loadedFrom, loadReported,
                  timersArmed, started, rejectionMode, unhandled, alive,
                  connStatus, msgs, ticks, firings >>

\* startProactiveMonitoring(): arms the three timers; the constructor returns.
StartProactiveMonitoring ==
  /\ pc = "setupWebSocket"
  /\ pc' = "constructed"
  /\ timersArmed' = TRUE
  /\ UNCHANGED << handlers, state, initPromise, loadedFrom, loadReported,
                  wsListening, started, rejectionMode, unhandled, alive,
                  connStatus, msgs, ticks, firings >>

\* start(): the caller makes the server listen.  It may run in the same
\* synchronous run as the constructor.
Start ==
  /\ pc = "constructed"
  /\ alive
  /\ ~started
  /\ started' = TRUE
  /\ UNCHANGED << pc, handlers, state, initPromise, loadedFrom, loadReported,
                  wsListening, timersArmed, rejectionMode, unhandled, alive,
                  connStatus, msgs, ticks, firings >>

\* The event loop runs a callback only between synchronous runs, and after
\* the rejections of the previous run were processed.
EventLoopReady == pc = "constructed" /\ alive /\ unhandled = 0

\* A loadUserState whose catch block reports the error and assigns nothing.
LoadUserStateNoDefault(src) ==
  /\ EventLoopReady
  /\ initPromise = "loading"
  /\ LET parsed == JSONParse(src.text) IN
       IF src.kind = "file" /\ parsed.ok
         THEN /\ state' = [state EXCEPT !.userPreferences = parsed.value]
              /\ loadReported' = loadReported
         ELSE /\ state' = state
              /\ loadReported' = TRUE
  /\ loadedFrom' = src
  /\ initPromise' = "resolved"
  /\ UNCHANGED << pc, handlers, wsListening, timersArmed, started,
                  rejectionMode, unhandled, alive, connStatus, msgs, ticks,
                  firings >>

\* A loadUserState that builds userPreferences in two runs: the first
\* stores a mapping without its keys, the second stores the keys.
LoadUserStateTorn(src) ==
  /\ EventLoopReady
  /\ initPromise = "loading"
  /\ LET parsed == JSONParse(src.text)
         value == IF src.kind = "file" /\ parsed.ok THEN parsed.value
                                                    ELSE EmptyObject
     IN IF loadedFrom = NoSource
          THEN /\ state' = [state EXCEPT !.userPreferences =
                                           [value EXCEPT !.fields = {}]]
               /\ loadedFrom' = src
               /\ UNCHANGED << initPromise, loadReported >>
          ELSE /\ src = loadedFrom
               /\ state' = [state EXCEPT !.userPreferences = value]
               /\ loadReported' = (loadReported \/ value # parsed.value)
               /\ initPromise' = "resolved"
               /\ UNCHANGED loadedFrom
  /\ UNCHANGED << pc, handlers, wsListening, timersArmed, started,
                  rejectionMode, unhandled, alive, connStatus, msgs, ticks,
                  firings >>

\* loadUserState() after its readFile settled on source src.
LoadUserState(src) ==
  /\ EventLoopReady
  /\ initPromise = "loading"
  /\ LET parsed == JSONParse(src.text) IN
       IF src.kind = "file" /\ parsed.ok
         THEN /\ state' = [state EXCEPT !.userPreferences = parsed.value]
              /\ loadReported' = loadReported
         ELSE /\ state' = [state EXCEPT !.userPreferences = EmptyObject]
              /\ loadReported' = TRUE
  /\ loadedFrom' = src
  /\ initPromise' = "resolved"
  /\ UNCHANGED << pc, handlers, wsListening, timersArmed, started,
                  rejectionMode, unhandled, alive, connStatus, msgs, ticks,
                  firings >>

\* The process handles its unhandled rejections: a build whose mode is
\* "throw" terminates, one whose mode is "warn" prints a warning.
UnhandledRejection ==
  /\ pc = "constructed"
  /\ alive
  /\ unhandled > 0
  /\ unhandled' = 0
  /\ alive' = (rejectionMode = "warn")
  /\ connStatus' = IF rejectionMode = "warn" THEN connStatus
                   ELSE [c \in Conns |->
                           IF connStatus[c] = "open" THEN "closed"
                           ELSE connStatus[c]]
  /\ UNCHANGED << pc, handlers, state, initPromise, loadedFrom, loadReported,
                  wsListening, timersArmed, started, rejectionMode, msgs,
                  ticks, firings >>

\* The 'connection' event: a client completes the upgrade that start() serves.
Connect(c) ==
  /\ EventLoopReady
  /\ started
  /\ wsListening
  /\ connStatus[c] # "open"
  /\ connStatus' = [connStatus EXCEPT ![c] = "open"]
  /\ UNCHANGED << pc, handlers, state, initPromise, loadedFrom, loadReported,
                  wsListening, timersArmed, started, rejectionMode, unhandled,
                  alive, msgs, ticks, firings >>

\* The client closes its connection.  No code of the platform closes one.
ClientClose(c) ==
  /\ EventLoopReady
  /\ connStatus[c] = "open"
  /\ connStatus' = [connStatus EXCEPT ![c] = "closed"]
  /\ UNCHANGED << pc, handlers, state, initPromise, loadedFrom, loadReported,
                  wsListening, timersArmed, started, rejectionMode, unhandled,
                  alive, msgs, ticks, firings >>

\* A message of connection c that has just arrived.
NewMessage(c, text) ==
  [ conn |-> c, text |-> text, stage |-> "received", type |-> "",
    payload |-> NoPayload, handler |-> "none", op |-> "none",
    result |-> "none", error |-> "none", reported |-> FALSE,
    fannedOut |-> FALSE, notifySeq |-> 0 ]

\* The catch block of the message listener: console.error, nothing else.
Caught(m, error) ==
  [m EXCEPT !.stage = "done", !.error = error, !.reported = TRUE]

\* this.notifyHandlers(type, payload), the last statement of handleMessage,
\* and the return to the listener.  notifySeq numbers the messages in the
\* order in which their handling reached this statement.
NotifyHandlers(m) ==
  LET n == 1 + Cardinality({ i \in 1..Len(msgs) : msgs[i].notifySeq > 0 })
      reached == [m EXCEPT !.notifySeq = n]
  IN IF "notifyHandlers" \in PlatformMethods
       THEN [reached EXCEPT !.stage = "done", !.fannedOut = TRUE]
       ELSE Caught(reached,
                   "TypeError: this.notifyHandlers is not a function")

\* handleMessage(data, ws) up to its first suspension, or to its end when it
\* does not suspend.
HandleMessage(m, data) ==
  IF data.isNull
    THEN Caught(m, "TypeError: cannot destructure null")
    ELSE LET r == Route(data.type)
             typed == [m EXCEPT !.type = data.type, !.payload = data.payload]
         IN IF r = NoRoute
              THEN NotifyHandlers(typed)
              ELSE IF r.handler \notin DOMAIN handlers
                THEN Caught(typed, "TypeError: handler is undefined")
                ELSE [typed EXCEPT !.stage = "awaitHandler",
                                   !.handler = r.handler, !.op = r.op,
                                   !.result = "pending"]

\* A 'message' listener whose catch block also closes the connection.
OnMessageClosing(c, text) ==
  /\ EventLoopReady
  /\ connStatus[c] = "open"
  /\ Len(msgs) < MaxMsgs
  /\ LET m == NewMessage(c, text)
         data == ParseMessage(text)
     IN msgs' = Append(msgs, IF data.ok THEN HandleMessage(m, data)
                                        ELSE Caught(m, "SyntaxError"))
  /\ connStatus' = IF msgs'[Len(msgs')].error # "none"
                     THEN [connStatus EXCEPT ![c] = "closed"]
                     ELSE connStatus
  /\ UNCHANGED << pc, handlers, state, initPromise, loadedFrom, loadReported,
                  wsListening, timersArmed, started, rejectionMode, unhandled,
                  alive, ticks, firings >>

\* The 'message' listener of a connection, up to its first suspension.
OnMessage(c, text) ==
  /\ EventLoopReady
  /\ connStatus[c] = "open"
  /\ Len(msgs) < MaxMsgs
  /\ LET m == NewMessage(c, text)
         data == ParseMessage(text)
     IN msgs' = Append(msgs, IF data.ok THEN HandleMessage(m, data)
                                        ELSE Caught(m, "SyntaxError"))
  /\ UNCHANGED << pc, handlers, state, initPromise, loadedFrom, loadReported,
                  wsListening, timersArmed, started, rejectionMode, unhandled,
                  alive, connStatus, ticks, firings >>

\* A handleMessage that constructs a new handler instance and registers it
\* in place of the one whose call failed.
HandlerSettlesReplacing(i, ok) ==
  /\ EventLoopReady
  /\ i \in 1..Len(msgs)
  /\ msgs[i].stage = "awaitHandler"
  /\ LET m == [msgs[i] EXCEPT !.result = IF ok THEN "ok" ELSE "fail"]
     IN msgs' = [msgs EXCEPT ![i] = IF ok THEN NotifyHandlers(m)
                                         ELSE Caught(m, "HandlerError")]
  /\ handlers' = IF ok THEN handlers
                 ELSE [handlers EXCEPT ![msgs[i].handler] =
                         @ + Len(HandlerOrder)]
  /\ UNCHANGED << pc, state, initPromise, loadedFrom, loadReported,
                  wsListening, timersArmed, started, rejectionMode, unhandled,
                  alive, connStatus, ticks, firings >>

\* The awaited handler call of message i settles; handleMessage resumes.
HandlerSettles(i, ok) ==
  /\ EventLoopReady
  /\ i \in 1..Len(msgs)
  /\ msgs[i].stage = "awaitHandler"
  /\ LET m == [msgs[i] EXCEPT !.result = IF ok THEN "ok" ELSE "fail"]
     IN msgs' = [msgs EXCEPT ![i] = IF ok THEN NotifyHandlers(m)
                                         ELSE Caught(m, "HandlerError")]
  /\ UNCHANGED << pc, handlers, state, initPromise, loadedFrom, loadReported,
                  wsListening, timersArmed, started, rejectionMode, unhandled,
                  alive, connStatus, ticks, firings >>

\* Call arguments where updateStrategies gets a value kept from an earlier
\* firing instead of the one generateInsights has just returned.
CallArgumentStale(job, k, calls) ==
  CASE job = "analyzeUserPatterns" /\ k = 1 -> "this.state"
    [] job = "updateKnowledgeBase" /\ k = 3 -> "insights1"
    [] OTHER -> "none"

\* The argument of the k-th handler call of a job, given the calls made so
\* far in the firing: analyzePatterns gets this.state, updateStrategies the
\* value generateInsights returned.
CallArgument(job, k, calls) ==
  CASE job = "analyzeUserPatterns" /\ k = 1 -> "this.state"
    [] job = "updateKnowledgeBase" /\ k = 3 -> calls[2].ret
    [] OTHER -> "none"

\* A firing runs on from the point where its first k calls have returned:
\* it makes call k + 1 and suspends on it, or it reaches the end of its job.
\* No statement of a job is inside a try block.  seen is what this.state
\* held when it was handed to analyzePatterns; the handler keeps the
\* reference and reads this.state itself while its call is pending.
RunFiring(f, k) ==
  LET seq == JobCalls(f.job) IN
  IF k < Len(seq)
    THEN IF seq[k + 1].handler \notin DOMAIN handlers
           THEN [f EXCEPT !.status = "rejected",
                          !.error = "TypeError: handler is undefined"]
           ELSE [f EXCEPT !.calls = Append(f.calls,
                   [ handler |-> seq[k + 1].handler, op |-> seq[k + 1].op,
                     arg |-> CallArgument(f.job, k + 1, f.calls),
                     result |-> "pending", ret |-> "none" ]),
                          !.seen = IF seq[k + 1].op = "analyzePatterns"
                                     THEN << state >> ELSE f.seen]
    ELSE IF f.job = "analyzeUserPatterns"
           THEN IF "updateProactiveSuggestions" \in PlatformMethods
                  THEN [f EXCEPT !.status = "done",
                                 !.suggestions = f.calls[1].ret]
                  ELSE [f EXCEPT !.status = "rejected", !.error =
                    "TypeError: this.updateProactiveSuggestions is not a function"]
           ELSE [f EXCEPT !.status = "done"]

\* A firing of job j that has not run yet.
NewFiring(j) ==
  [ job |-> j, status |-> "running", calls |-> << >>, error |-> "none",
    suggestions |-> "none", seen |-> << >> ]

\* A timer callback that skips the tick while a firing of its job is running.
TimerCallbackSkip(j, fs) ==
  IF \E i \in 1..Len(fs) : fs[i].job = j /\ fs[i].status = "running"
    THEN fs
    ELSE Append(fs, RunFiring(NewFiring(j), 0))

\* The callback setInterval was given for job j: it calls the job's method
\* and drops the promise the method returns.
TimerCallback(j, fs) == Append(fs, RunFiring(NewFiring(j), 0))

\* The promises of rejected firings: nothing handles them.
Rejected(fs) == Cardinality({ i \in 1..Len(fs) : fs[i].status = "rejected" })

\* The timer of job j fires.
Tick(j) ==
  /\ EventLoopReady
  /\ timersArmed
  /\ ticks["runPeriodicChecks"] + ticks["analyzeUserPatterns"]
       + ticks["updateKnowledgeBase"] < MaxFirings
  /\ ticks' = [ticks EXCEPT ![j] = @ + 1]
  /\ firings' = TimerCallback(j, firings)
  /\ unhandled' = unhandled + Rejected(firings') - Rejected(firings)
  /\ UNCHANGED << pc, handlers, state, initPromise, loadedFrom, loadReported,
                  wsListening, timersArmed, started, rejectionMode, alive,
                  connStatus, msgs >>

\* A job that stores what analyzePatterns returned in state.lastAnalysis.
CallSettlesStoring(i, ok, ret) ==
  /\ EventLoopReady
  /\ i \in 1..Len(firings)
  /\ firings[i].status = "running"
  /\ LET f == firings[i]
         k == Len(f.calls)
     IN /\ f.calls[k].result = "pending"
        /\ ret \in ReturnValues(f.calls[k].op)
        /\ firings' = [firings EXCEPT ![i] =
             IF ok
               THEN RunFiring([f EXCEPT !.calls[k].result = "ok",
                                        !.calls[k].ret = ret], k)
               ELSE [f EXCEPT !.calls[k].result = "fail",
                              !.status = "rejected",
                              !.error = "HandlerError"]]
        /\ state' = IF ok /\ f.calls[k].op = "analyzePatterns"
                      THEN [state EXCEPT !.lastAnalysis = ret]
                      ELSE state
  /\ unhandled' = unhandled + Rejected(firings') - Rejected(firings)
  /\ UNCHANGED << pc, handlers, initPromise, loadedFrom, loadReported,
                  wsListening, timersArmed, started, rejectionMode, alive,
                  connStatus, msgs, ticks >>

\* The handler call firing i awaits settles: it returns ret, or it fails
\* and the rejection leaves the job's method at the await.
CallSettles(i, ok, ret) ==
  /\ EventLoopReady
  /\ i \in 1..Len(firings)
  /\ firings[i].status = "running"
  /\ LET f == firings[i]
         k == Len(f.calls)
     IN /\ f.calls[k].result = "pending"
        /\ ret \in ReturnValues(f.calls[k].op)
        /\ firings' = [firings EXCEPT ![i] =
             IF ok
               THEN RunFiring([f EXCEPT !.calls[k].result = "ok",
                                        !.calls[k].ret = ret], k)
               ELSE [f EXCEPT !.calls[k].result = "fail",
                              !.status = "rejected",
                              !.error = "HandlerError"]]
  /\ unhandled' = unhandled + Rejected(firings') - Rejected(firings)
  /\ UNCHANGED << pc, handlers, state, initPromise, loadedFrom, loadReported,
                  wsListening, timersArmed, started, rejectionMode, alive,
                  connStatus, msgs, ticks >>

\* The handler call firing i awaits turns out to be one that never returns:
\* its promise stays pending for ever.  No await of a job has a timeout.
CallHangs(i) ==
  /\ EventLoopReady
  /\ i \in 1..Len(firings)
  /\ firings[i].status = "running"
  /\ firings[i].calls[Len(firings[i].calls)].result = "pending"
  /\ firings' = [firings EXCEPT ![i].calls[Len(firings[i].calls)].result =
                                   "hung"]
  /\ UNCHANGED << pc, handlers, state, initPromise, loadedFrom, loadReported,
                  wsListening, timersArmed, started, rejectionMode, unhandled,
                  alive, connStatus, msgs, ticks >>

Next ==
  \/ InitializeHandlers
  \/ SetupWebSocket
  \/ StartProactiveMonitoring
  \/ Start
  \/ \E src \in FileSources : LoadUserState(src)
  \/ UnhandledRejection
  \/ \E c \in Conns : Connect(c)
  \/ \E c \in Conns : ClientClose(c)
  \/ \E c \in Conns, text \in MessageTexts : OnMessage(c, text)
  \/ \E i \in 1..MaxMsgs, ok \in BOOLEAN : HandlerSettles(i, ok)
  \/ \E j \in Jobs : Tick(j)
  \/ \E i \in 1..MaxFirings, ok \in BOOLEAN, ret \in AllReturnValues :
       CallSettles(i, ok, ret)
  \/ \E i \in 1..MaxFirings : CallHangs(i)

Spec == Init /\ [][Next]_vars

\* The whole platform, messages and firings interleaved, with a bound on
\* the messages and firings together, one connection, and two of the file
\* sources and three of the message texts as inputs.  A call that hangs is
\* here a pending call that is never taken up again.
NextCore ==
  /\ \/ InitializeHandlers
     \/ SetupWebSocket
     \/ StartProactiveMonitoring
     \/ Start
     \/ \E src \in { [kind |-> "missing", text |-> ""],
                      [kind |-> "file", text |-> "{\"theme\":\"dark\"}"] } :
          LoadUserState(src)
     \/ UnhandledRejection
     \/ Connect("A")
     \/ ClientClose("A")
     \/ \E text \in { TaskUpdateText, PingText, TruncatedText } :
          OnMessage("A", text)
     \/ \E i \in 1..MaxMsgs, ok \in BOOLEAN : HandlerSettles(i, ok)
     \/ \E j \in Jobs : Tick(j)
     \/ \E i \in 1..MaxFirings, ok \in BOOLEAN, ret \in AllReturnValues :
          CallSettles(i, ok, ret)
  /\ Len(msgs') + Len(firings') <= MaxWork

SpecCore == Init /\ [][NextCore]_vars

\* Construction and the load of the user state, with no traffic and no tick.
NextStartup ==
  \/ InitializeHandlers
  \/ SetupWebSocket
  \/ StartProactiveMonitoring
  \/ Start
  \/ \E src \in FileSources : LoadUserState(src)
  \/ UnhandledRejection

SpecStartup == Init /\ [][NextStartup]_vars

\* The platform serving connections while no timer fires.
NextMessages ==
  \/ InitializeHandlers
  \/ SetupWebSocket
  \/ StartProactiveMonitoring
  \/ Start
  \/ \E src \in FileSources : LoadUserState(src)
  \/ UnhandledRejection
  \/ \E c \in Conns : Connect(c)
  \/ \E c \in Conns : ClientClose(c)
  \/ \E c \in Conns, text \in MessageTexts : OnMessage(c, text)
  \/ \E i \in 1..MaxMsgs, ok \in BOOLEAN : HandlerSettles(i, ok)

SpecMessages == Init /\ [][NextMessages]_vars

\* The platform running its jobs while the server has no connection.
NextJobs ==
  \/ InitializeHandlers
  \/ SetupWebSocket
  \/ StartProactiveMonitoring
  \/ \E src \in FileSources : LoadUserState(src)
  \/ UnhandledRejection
  \/ \E j \in Jobs : Tick(j)
  \/ \E i \in 1..MaxFirings, ok \in BOOLEAN, ret \in AllReturnValues :
       CallSettles(i, ok, ret)
  \/ \E i \in 1..MaxFirings : CallHangs(i)

SpecJobs == Init /\ [][NextJobs]_vars

\* The jobs under the scheduling the runtime guarantees: the event loop runs
\* every callback that is ready (a settled readFile, a due timer, a pending
\* unhandled rejection), and every handler call that is not one that hangs
\* settles.
SpecJobsFair ==
  /\ SpecJobs
  /\ WF_vars(UnhandledRejection)
  /\ WF_vars(\E src \in FileSources : LoadUserState(src))
  /\ WF_vars(\E j \in Jobs : Tick(j))
  /\ \A i \in 1..MaxFirings :
       WF_vars(\E ok \in BOOLEAN, ret \in AllReturnValues :
                 CallSettles(i, ok, ret))

\* ================================================================== claims

\* C1: failure isolation inside a firing: when a handler call of a firing
\* has failed, every later call of the job's sequence is still made in that
\* firing, so a firing that has ended after a failed call has made all the
\* calls of its job.
C1_FailureIsolation ==
  \A i \in 1..Len(firings) :
    LET f == firings[i] IN
      ( /\ f.status # "running"
        /\ \E k \in 1..Len(f.calls) : f.calls[k].result = "fail" )
      => Len(f.calls) = Len(JobCalls(f.job))

\* C2: firing continuity: a handler call that failed in a firing neither
\* disarms a timer nor terminates the platform.
C2_FiringContinuity ==
  ( \E i \in 1..Len(firings) : firings[i].error = "HandlerError" )
  => ( alive /\ timersArmed )

\* C3: a message whose type is none of TASK_UPDATE, PROJECT_UPDATE and
\* BRAINSTORM_REQUEST has been fanned out once its handling has ended.
C3_UnrecognizedTypeFannedOut ==
  \A i \in 1..Len(msgs) :
    ( /\ msgs[i].stage = "done"
      /\ msgs[i].text = PingText )
    => ( msgs[i].fannedOut /\ msgs[i].type = "PING" )

\* C4: after the handling of a TASK_UPDATE message {id, urgent} whose handler
\* call succeeded has ended, pendingTasks[id] reflects the payload and the
\* message has been fanned out.
C4_TaskUpdateApplied ==
  \A i \in 1..Len(msgs) :
    ( /\ msgs[i].stage = "done"
      /\ msgs[i].text = TaskUpdateText
      /\ msgs[i].result = "ok" )
    => ( /\ "t1" \in DOMAIN state.pendingTasks
         /\ state.pendingTasks["t1"].urgent = TRUE
         /\ msgs[i].fannedOut )

\* C5: a message whose parse fails is reported, invokes no handler operation
\* and its arrival leaves its connection open; a well-formed message that
\* arrives later on that connection is still dispatched: its type is read
\* and, when its type has a route to a registered handler, that handler's
\* operation is invoked.
C5_MalformedMessageRecovered ==
  /\ [] ( \A i \in 1..Len(msgs) :
            msgs[i].text = TruncatedText
            => ( /\ msgs[i].stage = "done"
                 /\ msgs[i].reported
                 /\ msgs[i].error = "SyntaxError"
                 /\ msgs[i].handler = "none"
                 /\ msgs[i].result = "none" ) )
  /\ [] ( \A i \in 1..Len(msgs), j \in 1..Len(msgs) :
            ( /\ i < j
              /\ msgs[i].conn = msgs[j].conn
              /\ msgs[i].text = TruncatedText )
            => ( /\ msgs[j].text = TaskUpdateText
                    => ( /\ msgs[j].type = "TASK_UPDATE"
                         /\ "tasks" \in DOMAIN handlers
                            => ( /\ msgs[j].handler = "tasks"
                                 /\ msgs[j].op = "handleTaskUpdate"
                                 /\ msgs[j].result # "none" ) )
                 /\ msgs[j].text = ProjectUpdateText
                    => ( /\ msgs[j].type = "PROJECT_UPDATE"
                         /\ "projects" \in DOMAIN handlers
                            => ( /\ msgs[j].handler = "projects"
                                 /\ msgs[j].op = "handleProjectUpdate"
                                 /\ msgs[j].result # "none" ) )
                 /\ msgs[j].text = BrainstormText
                    => ( /\ msgs[j].type = "BRAINSTORM_REQUEST"
                         /\ "brainstorm" \in DOMAIN handlers
                            => ( /\ msgs[j].handler = "brainstorm"
                                 /\ msgs[j].op = "handleBrainstormSession"
                                 /\ msgs[j].result # "none" ) )
                 /\ msgs[j].text = PingText => msgs[j].type = "PING" ) )
  /\ [][ ( /\ Len(msgs') = Len(msgs) + 1
           /\ msgs'[Len(msgs')].text = TruncatedText )
         => ( /\ connStatus'[msgs'[Len(msgs')].conn] = "open"
              /\ alive'
              /\ unhandled' = 0 ) ]_vars

\* C5 witness: on one connection a malformed message was followed by a
\* TASK_UPDATE whose handler operation was invoked.
C5_Witness ==
  \E i \in 1..Len(msgs), j \in 1..Len(msgs) :
    /\ i < j
    /\ msgs[i].conn = msgs[j].conn
    /\ msgs[i].text = TruncatedText
    /\ msgs[i].reported
    /\ msgs[j].text = TaskUpdateText
    /\ msgs[j].handler = "tasks"
    /\ connStatus[msgs[i].conn] = "open"

\* C6: when the handler call of a message of one connection has failed, the
\* failure is reported, and every message of another connection whose own
\* handler call succeeded has run to its end including its fan-out.
C6_DispatchFailureIsolated ==
  \A i \in 1..Len(msgs), j \in 1..Len(msgs) :
    ( /\ msgs[i].error = "HandlerError"
      /\ msgs[j].conn # msgs[i].conn
      /\ msgs[j].result = "ok"
      /\ msgs[j].stage = "done" )
    => ( msgs[i].reported /\ msgs[j].fannedOut )

\* C7: startup ordering: the server accepts connections and the timers are
\* armed only after the registry has been built and the load of the user
\* state has finished.
C7_StartupOrdering ==
  ( started \/ timersArmed )
  => ( DOMAIN handlers = CapabilityNames /\ initPromise = "resolved" )

\* C8: registry construction is all-or-nothing: connection handling is set
\* up and timers are armed only with all nine names registered.
C8_RegistryAllOrNothing ==
  ( wsListening \/ timersArmed ) => DOMAIN handlers = CapabilityNames

\* C9: once loadUserState has settled, userPreferences is the empty mapping
\* when the source was missing, unreadable or malformed, and the parsed
\* content when it was well-formed; the process is alive and no other field
\* of the state has changed.
C9_LoadUserState ==
  initPromise = "resolved"
  => ( /\ loadedFrom.kind \in { "missing", "unreadable" }
          => state.userPreferences = EmptyObject
       /\ ( loadedFrom.kind = "file" /\ loadedFrom.text = "{\"theme\":" )
          => state.userPreferences = EmptyObject
       /\ ( loadedFrom.kind = "file" /\ loadedFrom.text = "{}" )
          => state.userPreferences = [tag |-> "object", fields |-> {}]
       /\ ( loadedFrom.kind = "file"
            /\ loadedFrom.text \in { " { \"theme\" : \"dark\" } ",
                                     "{\"theme\":\"dark\"}" } )
          => state.userPreferences =
               [tag |-> "object", fields |-> { <<"theme", "dark">> }]
       /\ ( loadedFrom.kind = "file" /\ loadedFrom.text = "null" )
          => state.userPreferences = [tag |-> "null", fields |-> {}]
       /\ loadedFrom.kind \in { "missing", "unreadable", "file" }
       /\ alive
       /\ [state EXCEPT !.userPreferences = Null] = InitialState )

\* C9 witness: the load has settled on a malformed file and userPreferences
\* is the empty mapping.
C9_Witness ==
  /\ initPromise = "resolved"
  /\ loadedFrom = [kind |-> "file", text |-> "{\"theme\":"]
  /\ loadReported
  /\ state.userPreferences = EmptyObject

\* C10 as claimed: serialize-by-skip, at most one firing of the same job is
\* running at any time.
C10_SerializeBySkip ==
  \A j \in Jobs :
    Cardinality({ i \in 1..Len(firings) :
                    firings[i].job = j /\ firings[i].status = "running" }) <= 1

\* C10 amended: the timers allow overlap.  Every tick of a job's timer has
\* started a firing of that job, whether or not an earlier firing of the job
\* was still running: no tick is skipped and none is queued.
C10_EveryTickStartsFiring ==
  \A j \in Jobs :
    /\ Cardinality({ i \in 1..Len(firings) : firings[i].job = j }) = ticks[j]
    /\ \A i \in 1..Len(firings) :
         firings[i].job = j
         => ( \/ firings[i].status # "running"
              \/ Len(firings[i].calls) >= 1 )

\* C10 witness: two firings of the same job are running at the same time.
C10_Witness ==
  \E i \in 1..Len(firings), k \in 1..Len(firings) :
    /\ i < k
    /\ firings[i].job = firings[k].job
    /\ firings[i].status = "running"
    /\ firings[k].status = "running"
    /\ ticks[firings[i].job] = 2

\* C15: in a firing of runPeriodicChecks the handler calls are made in the
\* order tasks.checkUrgentTasks, projects.checkProjectDeadlines,
\* calendar.checkUpcomingEvents, email.checkImportantEmails,
\* logseq.updateEntries, each only after the one before it has returned, and
\* a firing that has completed has made each of the five exactly once.
C15_ShortCadenceOrder ==
  \A i \in 1..Len(firings) :
    LET f == firings[i]
        expected == << <<"tasks", "checkUrgentTasks">>,
                       <<"projects", "checkProjectDeadlines">>,
                       <<"calendar", "checkUpcomingEvents">>,
                       <<"email", "checkImportantEmails">>,
                       <<"logseq", "updateEntries">> >>
    IN f.job = "runPeriodicChecks"
       => ( /\ Len(f.calls) <= 5
            /\ \A k \in 1..Len(f.calls) :
                 /\ << f.calls[k].handler, f.calls[k].op >> = expected[k]
                 /\ k < Len(f.calls) => f.calls[k].result = "ok"
            /\ f.status = "done"
               => ( /\ Len(f.calls) = 5
                    /\ f.calls[5].result = "ok" ) )

\* C15 witness: a firing of runPeriodicChecks has completed its five calls.
C15_Witness ==
  \E i \in 1..Len(firings) :
    /\ firings[i].job = "runPeriodicChecks"
    /\ firings[i].status = "done"
    /\ Len(firings[i].calls) = 5

\* C16: in a firing of updateKnowledgeBase, memory.updateKnowledgeBase has
\* returned before claude.generateInsights is called, and
\* projects.updateStrategies is called after that, once, with the value
\* generateInsights returned in this same firing.
C16_LongCadenceInsights ==
  \A i \in 1..Len(firings) :
    LET f == firings[i]
        expected == << <<"memory", "updateKnowledgeBase">>,
                       <<"claude", "generateInsights">>,
                       <<"projects", "updateStrategies">> >>
    IN f.job = "updateKnowledgeBase"
       => ( /\ Len(f.calls) <= 3
            /\ \A k \in 1..Len(f.calls) :
                 /\ << f.calls[k].handler, f.calls[k].op >> = expected[k]
                 /\ k < Len(f.calls) => f.calls[k].result = "ok"
            /\ Len(f.calls) = 3
               => ( /\ f.calls[3].arg = f.calls[2].ret
                    /\ f.calls[3].arg \in { "insights1", "insights2" } )
            /\ f.status = "done"
               => ( Len(f.calls) = 3 /\ f.calls[3].result = "ok" ) )

\* C16 witness: two firings of updateKnowledgeBase got different insights
\* and each has called updateStrategies with its own.
C16_Witness ==
  \E i \in 1..Len(firings), k \in 1..Len(firings) :
    /\ firings[i].job = "updateKnowledgeBase"
    /\ firings[k].job = "updateKnowledgeBase"
    /\ Len(firings[i].calls) = 3
    /\ Len(firings[k].calls) = 3
    /\ firings[i].calls[3].arg = "insights1"
    /\ firings[k].calls[3].arg = "insights2"

\* C17: a firing of analyzeUserPatterns whose analyzePatterns call succeeded
\* has handed that analysis on as updated suggestions and has completed
\* without failure.
C17_MediumCadenceSuggestions ==
  \A i \in 1..Len(firings) :
    LET f == firings[i] IN
      ( /\ f.job = "analyzeUserPatterns"
        /\ Len(f.calls) = 1
        /\ f.calls[1].result = "ok" )
      => ( /\ f.status = "done"
           /\ f.suggestions = f.calls[1].ret
           /\ f.error = "none" )

\* C18: routing is a fixed function of the type: once a message has been
\* dispatched, a TASK_UPDATE has invoked tasks.handleTaskUpdate and nothing
\* else, a PROJECT_UPDATE projects.handleProjectUpdate, a BRAINSTORM_REQUEST
\* brainstorm.handleBrainstormSession, each with the payload of the message,
\* and a message of another type has invoked no handler operation.
C18_RoutingByType ==
  \A i \in 1..Len(msgs) :
    LET m == msgs[i] IN
      /\ m.text = TaskUpdateText
         => ( /\ << m.handler, m.op >> = << "tasks", "handleTaskUpdate" >>
              /\ m.payload = [id |-> "t1", urgent |-> TRUE] )
      /\ m.text = ProjectUpdateText
         => ( /\ << m.handler, m.op >> = << "projects", "handleProjectUpdate" >>
              /\ m.payload = [id |-> "p1", urgent |-> FALSE] )
      /\ m.text = BrainstormText
         => ( /\ << m.handler, m.op >>
                   = << "brainstorm", "handleBrainstormSession" >>
              /\ m.payload = [id |-> "b1", urgent |-> FALSE] )
      /\ m.text = PingText
         => << m.handler, m.op >> = << "none", "none" >>

\* C12: per-connection order: of two messages of one connection, the one
\* that arrived first reaches the fan-out call first.
C12_PerConnectionOrder ==
  \A i \in 1..Len(msgs), j \in 1..Len(msgs) :
    ( /\ i < j
      /\ msgs[i].conn = msgs[j].conn
      /\ msgs[j].notifySeq > 0 )
    => ( \/ msgs[i].notifySeq \in 1..(msgs[j].notifySeq - 1)
         \/ ( msgs[i].stage = "done" /\ msgs[i].notifySeq = 0 ) )

\* C13: fan-out delivery isolation: when a message reaches the fan-out
\* while one connection has closed and another is open, no failure is
\* raised to handleMessage and the notification is delivered.
C13_DeliveryIsolation ==
  \A i \in 1..Len(msgs) :
    ( /\ msgs[i].notifySeq > 0
      /\ \E c \in Conns : connStatus[c] = "closed"
      /\ \E c \in Conns : connStatus[c] = "open" )
    => ( msgs[i].fannedOut /\ msgs[i].error = "none" )

C14_FiringsFinish ==
  \A i \in 1..MaxFirings :
    ( Len(firings) >= i /\ firings[i].status = "running" )
    ~> ( ( Len(firings) >= i /\ firings[i].status # "running" ) \/ ~alive )

\* C19: the registry is read-only after construction: no step after
\* initializeHandlers changes this.handlers, every registered name maps to
\* an instance of its own, and once the nine constructors have returned the
\* nine names stay registered.
C19_RegistryReadOnly ==
  /\ [][ pc # "new" => handlers' = handlers ]_vars
  /\ [] ( \A a \in DOMAIN handlers, b \in DOMAIN handlers :
            handlers[a] = handlers[b] => a = b )
  /\ [] ( initPromise \in { "loading", "resolved" }
          => DOMAIN handlers = { "logseq", "filesystem", "memory", "email",
                                 "calendar", "claude", "tasks", "projects",
                                 "brainstorm" } )

\* C19 witness: with the nine handlers registered, a message's handler call
\* has failed and a job firing has ended.
C19_Witness ==
  /\ DOMAIN handlers = CapabilityNames
  /\ \E i \in 1..Len(msgs) : msgs[i].error = "HandlerError"
  /\ \E i \in 1..Len(firings) : firings[i].status # "running"

\* C20: frame of the core: a step of message handling or of a job firing
\* leaves this.state unchanged, and the only step that changes this.state is
\* the one in which loadUserState settles, which changes userPreferences
\* alone.
C20_StateFrame ==
  /\ [][ ( msgs' # msgs \/ firings' # firings ) => state' = state ]_vars
  /\ [][ state' # state
         => ( /\ initPromise = "loading"
              /\ initPromise' = "resolved"
              /\ [state' EXCEPT !.userPreferences = state.userPreferences]
                   = state ) ]_vars

\* C20 witness: the handling of a message of an unrecognized type has ended,
\* a job firing has got a result from analyzePatterns, and the state is the
\* constructor's except for the loaded userPreferences.
C20_Witness ==
  /\ \E i \in 1..Len(msgs) : msgs[i].text = PingText /\ msgs[i].stage = "done"
  /\ \E i \in 1..Len(firings) :
       /\ firings[i].job = "analyzeUserPatterns"
       /\ Len(firings[i].calls) = 1
       /\ firings[i].calls[1].result = "ok"
  /\ state = [InitialState EXCEPT !.userPreferences = DarkTheme]

====
